---- MODULE Spec2Model ----
(***************************************************************************)
(* A model of the function-ranking pipeline: rank_func.py (extract,        *)
(* normalise, score, sort, write), ml.py (label candidates, train, infer,  *)
(* combine), label.py (rule-based auto-labeller) and verify.py (id         *)
(* preservation audit).  The files under core/data are the state; every    *)
(* command line invocation is one action.                                  *)
(*                                                                         *)
(* Numbers.  Normalised metrics are rationals in [0,1]; they are kept as   *)
(* integers in units of 1/NormScale, which is exact for every column whose *)
(* max-min divides NormScale.  Scores are kept in units of 1/ScoreScale,   *)
(* and the values written to disk (rounded to 4 decimals by the code) in   *)
(* units of 1/Unit.                                                        *)
(***************************************************************************)
EXTENDS Integers, Sequences, FiniteSets, TLC

VARIABLES analysis,     \* core/data/analysis-with-code.json : graphNodes, or Absent
          rankedJson,   \* core/data/ranked_functions.json   : function_rankings, or Absent
          rankedCsv,    \* core/data/ranked_functions_scores.csv, or Absent
          candidates,   \* core/data/label_candidates.csv, or Absent
          labels,       \* core/data/labels.csv, or Absent
          modelFile,    \* core/data/rf_model.joblib, or Absent
          predictions,  \* core/data/ranked_functions_ml.csv, or Absent
          report,       \* core/data/preservation_report.txt, or Absent
          uncertain,    \* core/data/uncertain_labels.csv, or Absent
          edits,        \* how often the analysis input has been superseded
          last          \* the last command run and how it ended

vars == <<analysis, rankedJson, rankedCsv, candidates, labels, modelFile,
          predictions, report, uncertain, edits, last>>

\* A file that does not exist.
Absent == [absent |-> TRUE]

\* The units of the fixed-point arithmetic (not program constants).
NormScale == 2 * 2 * 3 * 5 * 7
ScoreScale == 100 * NormScale
Unit == 100 * 100

Min(a, b) == IF a <= b THEN a ELSE b
Max(a, b) == IF a >= b THEN a ELSE b
Abs(a) == IF a >= 0 THEN a ELSE 0 - a
SetMin(S) == CHOOSE x \in S : \A y \in S : x <= y
SetMax(S) == CHOOSE x \in S : \A y \in S : x >= y
Range(s) == {s[i] : i \in 1..Len(s)}

(***************************************************************************)
(* Text.  Python's `k in s` and str.lower(), on TLC strings.               *)
(***************************************************************************)
UpperChars == "ABCDEFGHIJKLMNOPQRSTUVWXYZ"
LowerChars == "abcdefghijklmnopqrstuvwxyz"

LowerChar(c) ==
    IF \E i \in 1..Len(UpperChars) : SubSeq(UpperChars, i, i) = c
    THEN LET i == CHOOSE j \in 1..Len(UpperChars) : SubSeq(UpperChars, j, j) = c
         IN  SubSeq(LowerChars, i, i)
    ELSE c

RECURSIVE lower(_)
lower(s) ==
    IF Len(s) = 0 THEN s
    ELSE LowerChar(SubSeq(s, 1, 1)) \o lower(SubSeq(s, 2, Len(s)))

Contains(s, k) ==
    \E i \in 1..(Len(s) - Len(k) + 1) : SubSeq(s, i, i + Len(k) - 1) = k

(***************************************************************************)
(* The code texts of the corpus.  A text is named by a key; CodeFacts      *)
(* gives what Python's str, re and ast report about it: line counts, the   *)
(* regex matches, whether ast.parse accepts it as it stands ("ok"), only   *)
(* once indented under a synthetic def ("wrapped") or not at all ("fail"), *)
(* and the node tallies of the text's own syntax tree.                     *)
(*                                                                         *)
(*  assign   x = y                                                         *)
(*  getter   x = get_y                                                     *)
(*  typed    def to_str(v: int) -> str:                                    *)
(*               return str(v)                                             *)
(*  big      def process(a, b):                                            *)
(*               """<84 characters>"""                                     *)
(*               import os                                                 *)
(*               if a and b:                                               *)
(*                   a = os.path.relpath(a, b)                             *)
(*               for i in b: a = a + max(i, min(b))                        *)
(*               return a                                                  *)
(*  handler  def setup(app):                                               *)
(*               if app:                                                   *)
(*                   app.ready = True                                      *)
(*               return app                                                *)
(*  frag     if x ==                                                       *)
(***************************************************************************)
NoTally == [branch |-> 0, boolop_extra |-> 0, FunctionDef |-> 0, fdef_params |-> 0,
            Lambda |-> 0, lambda_params |-> 0, Call |-> 0, Return |-> 0,
            Assign |-> 0, AugAssign |-> 0, Import |-> 0, ImportFrom |-> 0,
            docstring |-> 0, fdef_docstring |-> 0]

CodeFacts ==
    [assign  |-> [length |-> 5, nonblank |-> 1, stripped_lines |-> 1, keyword_hits |-> 0,
                  colon |-> FALSE, arrow |-> FALSE, colon_word |-> FALSE, parse |-> "ok",
                  tally |-> [NoTally EXCEPT !.Assign = 1]],
     getter  |-> [length |-> 9, nonblank |-> 1, stripped_lines |-> 1, keyword_hits |-> 1,
                  colon |-> FALSE, arrow |-> FALSE, colon_word |-> FALSE, parse |-> "ok",
                  tally |-> [NoTally EXCEPT !.Assign = 1]],
     typed   |-> [length |-> 44, nonblank |-> 2, stripped_lines |-> 2, keyword_hits |-> 3,
                  colon |-> TRUE, arrow |-> TRUE, colon_word |-> TRUE, parse |-> "ok",
                  tally |-> [NoTally EXCEPT !.FunctionDef = 1, !.fdef_params = 1,
                                            !.Call = 1, !.Return = 1]],
     big     |-> [length |-> 229, nonblank |-> 7, stripped_lines |-> 7, keyword_hits |-> 0,
                  colon |-> TRUE, arrow |-> FALSE, colon_word |-> TRUE, parse |-> "ok",
                  tally |-> [NoTally EXCEPT !.branch = 2, !.boolop_extra = 1,
                                            !.FunctionDef = 1, !.fdef_params = 2,
                                            !.Call = 3, !.Return = 1, !.Assign = 2,
                                            !.Import = 1, !.fdef_docstring = 84]],
     handler |-> [length |-> 67, nonblank |-> 4, stripped_lines |-> 4, keyword_hits |-> 1,
                  colon |-> TRUE, arrow |-> FALSE, colon_word |-> TRUE, parse |-> "ok",
                  tally |-> [NoTally EXCEPT !.branch = 1, !.FunctionDef = 1,
                                            !.fdef_params = 1, !.Return = 1, !.Assign = 1]],
     frag    |-> [length |-> 7, nonblank |-> 1, stripped_lines |-> 1, keyword_hits |-> 0,
                  colon |-> FALSE, arrow |-> FALSE, colon_word |-> FALSE, parse |-> "fail",
                  tally |-> NoTally],
     empty   |-> [length |-> 0, nonblank |-> 0, stripped_lines |-> 0, keyword_hits |-> 0,
                  colon |-> FALSE, arrow |-> FALSE, colon_word |-> FALSE, parse |-> "fail",
                  tally |-> NoTally],
     blank   |-> [length |-> 4, nonblank |-> 0, stripped_lines |-> 0, keyword_hits |-> 0,
                  colon |-> FALSE, arrow |-> FALSE, colon_word |-> FALSE, parse |-> "ok",
                  tally |-> NoTally],
     broken  |-> [length |-> 33, nonblank |-> 3, stripped_lines |-> 5, keyword_hits |-> 1,
                  colon |-> TRUE, arrow |-> FALSE, colon_word |-> TRUE, parse |-> "fail",
                  tally |-> NoTally],
     indented |-> [length |-> 22, nonblank |-> 2, stripped_lines |-> 2, keyword_hits |-> 0,
                  colon |-> FALSE, arrow |-> FALSE, colon_word |-> FALSE, parse |-> "wrapped",
                  tally |-> [NoTally EXCEPT !.Return = 1, !.Assign = 1]]]

CodeKeys == DOMAIN CodeFacts

\* The nodes a corpus is drawn from: id, label and code of a graph node.
Node(id, label, code) == [id |-> id, label |-> label, code |-> code]

Catalogue ==
    << Node("app/utils.py:copy", "copy", "assign"),
       Node("app/utils.py:get_y", "get_y", "getter"),
       Node("app/routing.py:to_str", "to_str", "typed"),
       Node("app/core.py:process", "process", "big"),
       Node("app/endpoints/items.py:process", "process", "big"),
       Node("app/core.py:Setup_helper", "Setup_helper", "handler"),
       Node("NA", "frag", "frag"),
       Node("app/endpoints/users.py:copy", "copy", "assign") >>

\* Nodes whose code is empty, blank, unparseable, or parseable only as the
\* body of a function.
Fragments ==
    << Node("app/tmp.py:empty", "empty", "empty"),
       Node("app/tmp.py:blank", "blank", "blank"),
       Node("app/tmp.py:broken", "broken", "broken"),
       Node("app/tmp.py:indented", "indented", "indented") >>

\* Nodes carrying fields besides id, label and code: two fields no stage
\* knows, and two named like fields the stages compute.
Annotated ==
    << Node("app/jobs.py:copy", "copy", "assign") @@ [owner |-> "platform", line |-> 12],
       Node("app/jobs.py:get_y", "get_y", "getter") @@ [loc |-> 40, importance |-> 3] >>

Pool == Catalogue \o Fragments \o Annotated

(***************************************************************************)
(* rank_func.py: feature extraction.                                       *)
(***************************************************************************)
NoTree == [present |-> FALSE, tally |-> NoTally]

\* ast.parse of the text indented under "def __wrapper__():": the synthetic
\* def is one more FunctionDef, the first one met, it has no parameters and
\* the text's leading string, if any, is its docstring.
WrappedTally(t) ==
    [t EXCEPT !.FunctionDef = t.FunctionDef + 1,
              !.fdef_params = 0,
              !.docstring = 0,
              !.fdef_docstring = IF t.docstring > 0 THEN t.docstring
                                                      ELSE t.fdef_docstring]

safe_parse(code) ==
    LET f == CodeFacts[code] IN
    IF f.length = 0 THEN NoTree
    ELSE IF f.parse = "ok" THEN [present |-> TRUE, tally |-> f.tally]
    ELSE IF f.parse = "wrapped" THEN [present |-> TRUE, tally |-> WrappedTally(f.tally)]
    ELSE NoTree

\* The complexity without the test for an absent tree.
compute_cyclomatic_complexity_any(tree) ==
    Max(1, tree.tally.branch + tree.tally.boolop_extra + 1)

compute_cyclomatic_complexity(tree) ==
    IF ~tree.present THEN 0
    ELSE Max(1, tree.tally.branch + tree.tally.boolop_extra + 1)

count_nodes_of_type(tree, t) == IF ~tree.present THEN 0 ELSE tree.tally[t]

extract_docstring_length(tree) ==
    IF ~tree.present THEN 0
    ELSE IF tree.tally.docstring > 0 THEN tree.tally.docstring
    ELSE tree.tally.fdef_docstring

num_params_of(tree) ==
    IF ~tree.present THEN 0
    ELSE IF tree.tally.FunctionDef > 0 THEN tree.tally.fdef_params
    ELSE IF tree.tally.Lambda > 0 THEN tree.tally.lambda_params
    ELSE 0

one_liner_of(code) ==
    IF CodeFacts[code].nonblank <= 3 /\ CodeFacts[code].stripped_lines <= 3 THEN 1 ELSE 0

has_type_annotations_of(code) ==
    LET f == CodeFacts[code] IN
    IF (f.colon /\ f.arrow) \/ (f.colon /\ f.colon_word) THEN 1 ELSE 0

code_snippet_of(code) ==
    [text |-> code, truncated |-> CodeFacts[code].length > 1000]

\* One pass of the loop over nodes: the row is the node's own fields, then
\* updated with (and, for equal keys, overridden by) the extracted features.
ExtractRow(node) ==
    LET tree == safe_parse(node.code) IN
    [id                   |-> node.id,
     label                |-> node.label,
     loc                  |-> CodeFacts[node.code].nonblank,
     complexity           |-> compute_cyclomatic_complexity(tree),
     num_funcs            |-> count_nodes_of_type(tree, "FunctionDef"),
     num_params           |-> num_params_of(tree),
     num_calls            |-> count_nodes_of_type(tree, "Call"),
     num_returns          |-> count_nodes_of_type(tree, "Return"),
     num_assigns          |-> count_nodes_of_type(tree, "Assign")
                                + count_nodes_of_type(tree, "AugAssign"),
     num_imports          |-> count_nodes_of_type(tree, "Import")
                                + count_nodes_of_type(tree, "ImportFrom"),
     doc_len              |-> extract_docstring_length(tree),
     keyword_matches      |-> CodeFacts[node.code].keyword_hits,
     one_liner            |-> one_liner_of(node.code),
     has_type_annotations |-> has_type_annotations_of(node.code),
     code_snippet         |-> code_snippet_of(node.code)] @@ node

rows(nodes) == [i \in 1..Len(nodes) |-> ExtractRow(nodes[i])]

(***************************************************************************)
(* rank_func.py: min-max normalisation of the numeric columns.             *)
(***************************************************************************)
numeric_cols == {"loc", "complexity", "num_funcs", "num_params", "num_calls",
                 "num_returns", "num_assigns", "num_imports", "doc_len",
                 "keyword_matches"}

\* min_max without the offset: v / mx.
min_max_no_offset(vals) ==
    IF vals = <<>> THEN <<>>
    ELSE [i \in 1..Len(vals) |->
            (vals[i] * NormScale) \div Max(1, SetMax(Range(vals)))]

min_max(vals) ==
    IF vals = <<>> THEN <<>>
    ELSE LET mn == SetMin(Range(vals))
             mx == SetMax(Range(vals))
         IN  IF mx - mn = 0
             THEN [i \in 1..Len(vals) |-> 0]
             ELSE [i \in 1..Len(vals) |-> ((vals[i] - mn) * NormScale) \div (mx - mn)]

col_vals(rs, c) == [i \in 1..Len(rs) |-> rs[i][c]]

norm_name == [c \in numeric_cols |-> c \o "_norm"]

normalized(rs) ==
    LET col_norm == [c \in numeric_cols |-> min_max(col_vals(rs, c))] IN
    [i \in 1..Len(rs) |->
        [n \in {norm_name[c] : c \in numeric_cols} |->
            col_norm[CHOOSE c \in numeric_cols : norm_name[c] = n][i]] @@ rs[i]]

(***************************************************************************)
(* rank_func.py: the heuristic scorer.  Weights are in hundredths, scores  *)
(* in units of 1/ScoreScale.                                               *)
(***************************************************************************)
weights == [loc_norm |-> 35, complexity_norm |-> 20, num_calls_norm |-> 5,
            num_params_norm |-> 5, keyword_matches_norm |-> 20, doc_len_norm |-> 5,
            num_imports_norm |-> 5]

Hundredths(p) == p * NormScale
One == ScoreScale

critical_names == {"__init__", "decorator", "on_event", "setup", "configure", "mount"}
critical_files == {"applications", "routing", "endpoints", "schemas", "models"}

\* The texts of the corpus (ids and labels), and for each whether its lower
\* case form contains a word of a vocabulary.
Texts == {Pool[i].id : i \in 1..Len(Pool)}
         \cup {Pool[i].label : i \in 1..Len(Pool)} \cup {"nan"}

has_critical_name == [s \in Texts |-> \E k \in critical_names : Contains(lower(s), k)]
has_critical_file == [s \in Texts |-> \E f \in critical_files : Contains(lower(s), f)]

\* The protection granted only when both name and path are critical.
is_critical_both(r) == has_critical_name[r.label] /\ has_critical_file[r.id]

is_critical(r) == has_critical_name[r.label] \/ has_critical_file[r.id]

is_trivial_one_liner(r) == r.one_liner # 0 /\ r.num_calls <= 1 /\ r.complexity <= 2

is_documented(r) == r.has_type_annotations # 0 \/ r.doc_len > 80

\* The weighted sum with the keyword term inverted like the others.
weighted_sum_all_inverted(r) ==
      weights.loc_norm * (NormScale - r.loc_norm)
    + weights.complexity_norm * (NormScale - r.complexity_norm)
    + weights.num_calls_norm * (NormScale - r.num_calls_norm)
    + weights.num_params_norm * (NormScale - r.num_params_norm)
    + weights.keyword_matches_norm * (NormScale - r.keyword_matches_norm)
    + weights.doc_len_norm * (NormScale - r.doc_len_norm)
    + weights.num_imports_norm * (NormScale - r.num_imports_norm)

weighted_sum(r) ==
      weights.loc_norm * (NormScale - r.loc_norm)
    + weights.complexity_norm * (NormScale - r.complexity_norm)
    + weights.num_calls_norm * (NormScale - r.num_calls_norm)
    + weights.num_params_norm * (NormScale - r.num_params_norm)
    + weights.keyword_matches_norm * r.keyword_matches_norm
    + weights.doc_len_norm * (NormScale - r.doc_len_norm)
    + weights.num_imports_norm * (NormScale - r.num_imports_norm)

after_bonus(r) ==
    IF is_trivial_one_liner(r) THEN Min(One, weighted_sum(r) + Hundredths(10))
    ELSE weighted_sum(r)

after_critical(r) ==
    IF is_critical(r) THEN Max(0, after_bonus(r) - Hundredths(15))
    ELSE after_bonus(r)

after_documented(r) ==
    IF is_documented(r) THEN Max(0, after_critical(r) - Hundredths(8))
    ELSE after_critical(r)

\* The scorer without any of its clamps.
compute_triviality_unclamped(r) ==
      weighted_sum(r)
    + (IF is_trivial_one_liner(r) THEN Hundredths(10) ELSE 0)
    - (IF is_critical(r) THEN Hundredths(15) ELSE 0)
    - (IF is_documented(r) THEN Hundredths(8) ELSE 0)

compute_triviality(r) == Max(0, Min(One, after_documented(r)))

\* Python's round(num/den, 4), in units of 1/Unit: to nearest, ties to even.
round4(num, den) ==
    LET q == (num * Unit) \div den
        rem == (num * Unit) % den
    IN  IF 2 * rem < den THEN q
        ELSE IF 2 * rem > den THEN q + 1
        ELSE IF q % 2 = 0 THEN q ELSE q + 1

triviality_of(r) == round4(compute_triviality(r), ScoreScale)
importance_of(t) == round4(Unit - t, Unit)

scored(rs) ==
    [i \in 1..Len(rs) |->
        LET t == triviality_of(rs[i])
        IN  [triviality |-> t, importance |-> importance_of(t)] @@ rs[i]]

(***************************************************************************)
(* Orderings.  keys is a sequence of integers; an ordering is a sequence   *)
(* of the indices in S by non-decreasing key.  StableOrder keeps equal     *)
(* keys in index order (Python's sorted); Orderings is every ordering an   *)
(* unstable sort may return (pandas' sort_values, default kind).           *)
(***************************************************************************)
RECURSIVE StableOrder(_, _)
StableOrder(keys, S) ==
    IF S = {} THEN <<>>
    ELSE LET mn == SetMin({keys[i] : i \in S})
             i == SetMin({j \in S : keys[j] = mn})
         IN  <<i>> \o StableOrder(keys, S \ {i})

RECURSIVE Orderings(_, _)
Orderings(keys, S) ==
    IF S = {} THEN {<<>>}
    ELSE LET mn == SetMin({keys[i] : i \in S})
         IN  UNION {{<<i>> \o t : t \in Orderings(keys, S \ {i})} :
                        i \in {j \in S : keys[j] = mn}}

Permute(s, order) == [k \in 1..Len(order) |-> s[order[k]]]

\* An ascending sort, reversed: equal keys end up in reverse input order.
rows_sorted_reversed(rs) ==
    LET asc == StableOrder([i \in 1..Len(rs) |-> rs[i].importance], 1..Len(rs))
    IN  [k \in 1..Len(rs) |-> rs[asc[Len(rs) + 1 - k]]]

\* sorted(rows, key=importance, reverse=True): reverse keeps equal keys in
\* their original order.
rows_sorted(rs) ==
    Permute(rs, StableOrder([i \in 1..Len(rs) |-> 0 - rs[i].importance], 1..Len(rs)))

ranked(nodes) == rows_sorted(scored(normalized(rows(nodes))))

(***************************************************************************)
(* Files.  A CSV file is its header and its rows as written; a field that  *)
(* is text is kept as text, a number as the number it prints and parses    *)
(* back to.  pandas writes a missing value as the empty field and reads    *)
(* the empty field, and the other NaWords, as missing.                     *)
(***************************************************************************)
NaN == "<NaN>"
NaWords == {"", "#N/A", "#N/A N/A", "#NA", "-1.#IND", "-1.#QNAN", "-NaN", "-nan",
            "1.#IND", "1.#QNAN", "<NA>", "N/A", "NA", "NULL", "NaN", "None",
            "n/a", "nan", "null"}

csv_columns == {"id", "label", "importance", "triviality", "loc", "complexity",
                "num_funcs", "num_params", "num_calls", "num_returns", "num_assigns",
                "num_imports", "doc_len", "keyword_matches", "one_liner",
                "has_type_annotations"}

Project(r, cols) == [c \in cols |-> r[c]]

\* df.to_csv(columns=cols_present): a frame made from no rows has no columns.
to_csv_field(v) == IF v = NaN THEN "" ELSE v
read_csv_field(v) == IF v \in NaWords THEN NaN ELSE v

to_csv(rs, cols) ==
    [header |-> IF rs = <<>> THEN {} ELSE cols,
     rows   |-> [i \in 1..Len(rs) |->
                    [c \in cols |-> IF c \in {"id", "label"} THEN to_csv_field(rs[i][c])
                                                              ELSE rs[i][c]]]]

\* pd.read_csv: raises on a file with no columns; text fields that are
\* NaWords become missing values.  (No id or label column of the corpus is
\* all digits, so no column is re-typed as numbers.)
Raised == [ok |-> FALSE]

read_csv(file) ==
    IF file.header = {} THEN Raised
    ELSE [ok   |-> TRUE,
          cols |-> file.header,
          rows |-> [i \in 1..Len(file.rows) |->
                      [c \in file.header |->
                          IF c \in {"id", "label", "human_label"}
                          THEN read_csv_field(file.rows[i][c]) ELSE file.rows[i][c]]]]

\* The outcome of a command: it ran to its end ("done") or it stopped on an
\* error ("error"), with the process's exit status.
Outcome(stage, outcome, exit, n) ==
    [stage |-> stage, outcome |-> outcome, exit |-> exit, n |-> n,
     counts |-> [n_top |-> 0, n_mid |-> 0, n_bottom |-> 0],
     strata |-> [top |-> <<>>, mid |-> <<>>, bottom |-> <<>>]]

\* The same for a run of the sampler, with the counts it was called with and
\* the ids of the three strata it selected (its locals top, mid, bottom).
Sampled(stage, n, n_top, n_bottom, n_mid, sample) ==
    [stage |-> stage, outcome |-> "done", exit |-> 0, n |-> n,
     counts |-> [n_top |-> n_top, n_mid |-> n_mid, n_bottom |-> n_bottom],
     strata |-> [top |-> sample.top, mid |-> sample.mid, bottom |-> sample.bottom]]

(***************************************************************************)
(* python rank_func.py                                                     *)
(***************************************************************************)
Rank ==
    IF analysis = Absent
    THEN /\ last' = Outcome("rank", "error", 1, 0)
         /\ UNCHANGED <<analysis, rankedJson, rankedCsv, candidates, labels,
                        modelFile, predictions, report, uncertain, edits>>
    ELSE LET out == ranked(analysis.graphNodes) IN
         /\ rankedJson' = [function_rankings |-> out]
         /\ rankedCsv' = to_csv(out, csv_columns)
         /\ last' = Outcome("rank", "done", 0, 0)
         /\ UNCHANGED <<analysis, candidates, labels, modelFile, predictions,
                        report, uncertain, edits>>

(***************************************************************************)
(* ml.py: the label candidate sampler.                                     *)
(***************************************************************************)
\* A loader that defaults to an empty frame when the file is missing.
load_ranked_csv_defaulting(csv) ==
    IF csv = Absent THEN [ok |-> TRUE, cols |-> {}, rows |-> <<>>] ELSE read_csv(csv)

load_ranked_csv(csv) == IF csv = Absent THEN Raised ELSE read_csv(csv)

\* DataFrame.head(n), .tail(n) and .iloc[:n], negative n included.
head(s, n) == SubSeq(s, 1, IF n >= 0 THEN Min(n, Len(s)) ELSE Max(0, Len(s) + n))
tail(s, n) ==
    IF n >= 0 THEN SubSeq(s, Len(s) - Min(n, Len(s)) + 1, Len(s))
    ELSE SubSeq(s, Min(0 - n, Len(s)) + 1, Len(s))
iloc_upto(s, n) == head(s, n)

\* Twice the median of a sequence sorted by importance (twice: the median of
\* an even number of values is the mean of the middle two).
twice_median(sorted) ==
    LET n == Len(sorted) IN
    IF n % 2 = 1 THEN 2 * sorted[(n + 1) \div 2].importance
    ELSE sorted[n \div 2].importance + sorted[n \div 2 + 1].importance

ids_of(rs) == [i \in 1..Len(rs) |-> rs[i].id]

\* drop_duplicates keeping the last occurrence of an id.
RECURSIVE drop_duplicates_keep_last(_)
drop_duplicates_keep_last(s) ==
    IF s = <<>> THEN <<>>
    ELSE LET rest == drop_duplicates_keep_last(Tail(s))
         IN  IF \E i \in 1..Len(rest) : rest[i].id = Head(s).id THEN rest
             ELSE <<Head(s)>> \o rest

RECURSIVE drop_duplicates(_)
drop_duplicates(s) ==
    IF s = <<>> THEN <<>>
    ELSE LET front == drop_duplicates(SubSeq(s, 1, Len(s) - 1))
             r == s[Len(s)]
         IN  IF \E i \in 1..Len(front) : front[i].id = r.id THEN front
             ELSE Append(front, r)

NoDist == [nan |-> TRUE, twice |-> 0]

label_columns == {"id", "label", "importance", "triviality", "loc", "complexity",
                  "num_calls", "num_params", "doc_len", "keyword_matches", "one_liner",
                  "has_type_annotations"}

candidate_columns(cols) == cols \cup {"dist_med"} \cup label_columns \cup {"human_label"}

\* Every outcome of prepare_label_candidates for the frame df: the table it
\* writes and the ids of its three strata, one outcome per result of its
\* two sort_values calls.
prepare_label_candidates(df, n_top, n_bottom, n_mid) ==
    LET N == Len(df.rows)
        by_importance == Orderings([i \in 1..N |-> 0 - df.rows[i].importance], 1..N)
    IN  UNION {
          LET df_sorted == Permute(df.rows, o1)
              top == head(df_sorted, n_top)
              bottom == tail(df_sorted, n_bottom)
              twice_med == IF N = 0 THEN 0 ELSE twice_median(df_sorted)
              dist == [i \in 1..N |-> Abs(2 * df_sorted[i].importance - twice_med)]
              undist(rs) == [i \in 1..Len(rs) |-> rs[i] @@ [dist_med |-> NoDist]]
              with_dist == [i \in 1..N |->
                              df_sorted[i] @@ [dist_med |-> [nan |-> FALSE, twice |-> dist[i]]]]
          IN  { LET mid == iloc_upto(Permute(with_dist, o2), n_mid)
                    kept == drop_duplicates(undist(top) \o mid \o undist(bottom))
                IN  [table  |-> [i \in 1..Len(kept) |->
                                   [c \in candidate_columns(df.cols) |->
                                      IF c = "human_label" THEN ""
                                      ELSE IF c \in DOMAIN kept[i] THEN kept[i][c] ELSE ""]],
                     top    |-> ids_of(top),
                     mid    |-> ids_of(mid),
                     bottom |-> ids_of(bottom)]
                : o2 \in Orderings(dist, 1..N) }
          : o1 \in by_importance }

write_frame(rs, cols) ==
    [header |-> cols,
     rows   |-> [i \in 1..Len(rs) |->
                    [c \in cols |-> IF c \in {"id", "label", "human_label"}
                                    THEN to_csv_field(rs[i][c]) ELSE rs[i][c]]]]

(***************************************************************************)
(* python ml.py --prepare-labels --candidates n                            *)
(***************************************************************************)
PrepareLabels(n) ==
    LET df == load_ranked_csv(rankedCsv) IN
    IF ~df.ok
    THEN /\ last' = Outcome("prepare-labels", "error", 1, n)
         /\ UNCHANGED <<analysis, rankedJson, rankedCsv, candidates, labels,
                        modelFile, predictions, report, uncertain, edits>>
    ELSE \E sample \in prepare_label_candidates(df, 50, 50, n - 100) :
         /\ candidates' = write_frame(sample.table, candidate_columns(df.cols))
         /\ last' = Sampled("prepare-labels", n, 50, 50, n - 100, sample)
         /\ UNCHANGED <<analysis, rankedJson, rankedCsv, labels, modelFile,
                        predictions, report, uncertain, edits>>

\* prepare_label_candidates(df, n_top, n_bottom, n_mid), called on its own,
\* once, on a ranked table.
Sample(n_top, n_bottom, n_mid) ==
    LET df == load_ranked_csv(rankedCsv) IN
    /\ candidates = Absent
    /\ df.ok
    /\ \E sample \in prepare_label_candidates(df, n_top, n_bottom, n_mid) :
         /\ candidates' = write_frame(sample.table, candidate_columns(df.cols))
         /\ last' = Sampled("sample", 0, n_top, n_bottom, n_mid, sample)
    /\ UNCHANGED <<analysis, rankedJson, rankedCsv, labels, modelFile,
                   predictions, report, uncertain, edits>>

(***************************************************************************)
(* python label.py: the rule-based auto-labeller.                          *)
(***************************************************************************)
str_of(v) == IF v = NaN THEN "nan" ELSE v

util_keywords == {"util", "helper", "parse", "to_", "from_", "convert", "str", "format",
                  "encode", "decode", "validate", "calc", "sum", "avg", "is_", "has_",
                  "print", "len", "split", "join", "replace"}
core_keywords == {"route", "app", "endpoint", "request", "response", "schema", "model",
                  "router", "startup", "shutdown", "include", "register", "mount",
                  "middleware", "api", "handler", "process", "dispatch", "run"}

has_util_keyword == [s \in Texts |-> \E k \in util_keywords : Contains(lower(s), k)]
has_core_keyword == [s \in Texts |-> \E k \in core_keywords : Contains(lower(s), k)]
lowered == [s \in Texts |-> lower(s)]

guess_label(row) ==
    LET name == str_of(row.label)
        file_id == lowered[str_of(row.id)]
    IN  IF \/ has_util_keyword[name]
           \/ row.one_liner # 0
           \/ row.loc <= 3
           \/ row.keyword_matches >= 2
        THEN "utility"
        ELSE IF \/ has_core_keyword[name]
                \/ row.complexity >= 6
                \/ row.loc >= 20
        THEN "core"
        ELSE IF Contains(file_id, "utils") \/ Contains(file_id, "helpers") THEN "utility"
        ELSE IF \/ Contains(file_id, "applications")
                \/ Contains(file_id, "routing")
                \/ Contains(file_id, "endpoints")
        THEN "core"
        ELSE ""

AutoLabel ==
    IF candidates = Absent
    THEN /\ last' = Outcome("label", "error", 1, 0)
         /\ UNCHANGED <<analysis, rankedJson, rankedCsv, candidates, labels,
                        modelFile, predictions, report, uncertain, edits>>
    ELSE LET df == read_csv(candidates)
             guessed == [i \in 1..Len(df.rows) |->
                            [df.rows[i] EXCEPT !.human_label = guess_label(df.rows[i])]]
             unsure == SelectSeq(guessed, LAMBDA r : r.human_label = "")
         IN  /\ labels' = write_frame(guessed, df.cols)
             /\ uncertain' = IF unsure # <<>> THEN write_frame(unsure, df.cols)
                                              ELSE uncertain
             /\ last' = Outcome("label", "done", 0, 0)
             /\ UNCHANGED <<analysis, rankedJson, rankedCsv, candidates, modelFile,
                            predictions, report, edits>>

(***************************************************************************)
(* The annotator saves the candidates table as labels.csv: with the first  *)
(* k rows marked "core" and the others "utility" (ManualLabel), or with    *)
(* the annotation column saved under another name (SaveRenamed).           *)
(***************************************************************************)
ManualLabel(k) ==
    /\ candidates # Absent
    /\ k <= Len(candidates.rows)
    /\ labels' = [candidates EXCEPT !.rows =
                    [i \in 1..Len(candidates.rows) |->
                        [candidates.rows[i] EXCEPT
                            !.human_label = IF i <= k THEN "core" ELSE "utility"]]]
    /\ last' = Outcome("annotate", "done", 0, k)
    /\ UNCHANGED <<analysis, rankedJson, rankedCsv, candidates, modelFile,
                   predictions, report, uncertain, edits>>

SaveRenamed ==
    /\ candidates # Absent
    /\ labels' =
         [header |-> (candidates.header \ {"human_label"}) \cup {"category"},
          rows   |-> [i \in 1..Len(candidates.rows) |->
                        [c \in (candidates.header \ {"human_label"}) \cup {"category"} |->
                            IF c = "category" THEN "core" ELSE candidates.rows[i][c]]]]
    /\ last' = Outcome("annotate", "done", 0, 0)
    /\ UNCHANGED <<analysis, rankedJson, rankedCsv, candidates, modelFile,
                   predictions, report, uncertain, edits>>

(***************************************************************************)
(* ml.py: train, infer, combine.                                           *)
(***************************************************************************)
\* lab[["id","human_label"]].dropna(), then only the two known categories.
valid_labels(lab_rows) ==
    SelectSeq(lab_rows, LAMBDA r : /\ r.id # NaN
                                   /\ r.human_label \in {"utility", "core"})

\* df_features.merge(lab, on="id", how="inner"): for every frame row, in
\* order, one merged row per label row of the same id; y is 1 for "core".
RECURSIVE merge_y(_, _)
merge_y(df_rows, lab_rows) ==
    IF df_rows = <<>> THEN <<>>
    ELSE LET matches == SelectSeq(lab_rows, LAMBDA l : l.id = Head(df_rows).id)
         IN  [j \in 1..Len(matches) |-> IF matches[j].human_label = "core" THEN 1 ELSE 0]
             \o merge_y(Tail(df_rows), lab_rows)

class_count(y, c) == Cardinality({i \in 1..Len(y) : y[i] = c})

\* StratifiedKFold(n_splits=5).split raises when there are fewer samples
\* than splits, or when no class has as many members as there are splits.
cross_validate_raises(y) ==
    \/ Len(y) < 5
    \/ \A c \in {0, 1} : class_count(y, c) < 5

\* The fitted pipeline, as far as the rest of the program sees it: the
\* classes it was fitted on (predict_proba has one column per class).
fitted(y) == [classes |-> Range(y), n_samples |-> Len(y)]

\* The probabilities a fitted model may return, in units of 1/Unit.  A
\* model is a function of a row's features: here of its one_liner flag,
\* a pair <<probability for one-liners, probability for the others>>.
ProbPatterns == {<<0, 10000>>, <<10000, 2500>>, <<2500, 2500>>}

\* The simple average of importance and probability.
combined_score_average(importance, prob) == 5 * importance + 5 * prob

\* 0.4 * importance + 0.6 * model_prob_core, in units of 1/(10 * Unit).
combined_score_of(importance, prob) == 4 * importance + 6 * prob

prediction_columns(cols) == cols \cup {"model_prob_core", "combined_score"}

\* Every predictions table the train stage may write for the frame df and
\* the class probabilities (a for one-liners, b for the others).
predicted(df, a, b) ==
    LET N == Len(df.rows)
        df_out == [i \in 1..N |->
                     LET p == IF df.rows[i].one_liner # 0 THEN a ELSE b IN
                     df.rows[i] @@
                     [model_prob_core |-> p,
                      combined_score  |-> IF "importance" \in df.cols
                                          THEN combined_score_of(df.rows[i].importance, p)
                                          ELSE 10 * p]]
    IN  { write_frame(Permute(df_out, o), prediction_columns(df.cols)) :
            o \in Orderings([i \in 1..N |-> 0 - df_out[i].combined_score], 1..N) }

(***************************************************************************)
(* python ml.py --train                                                    *)
(***************************************************************************)
TrainStops(exit) ==
    /\ last' = Outcome("train", "error", exit, 0)
    /\ UNCHANGED <<analysis, rankedJson, rankedCsv, candidates, labels, modelFile,
                   predictions, report, uncertain, edits>>

Train ==
    LET df == load_ranked_csv(rankedCsv) IN
    IF ~df.ok THEN TrainStops(1)
    ELSE IF labels = Absent THEN TrainStops(0)
    ELSE LET lab == read_csv(labels) IN
         IF "human_label" \notin lab.cols THEN TrainStops(1)
         ELSE LET y == merge_y(df.rows, valid_labels(lab.rows)) IN
              IF cross_validate_raises(y) THEN TrainStops(1)
              ELSE IF Cardinality(fitted(y).classes) < 2
              THEN \* probs[:, 1] raises after the model was saved
                   /\ modelFile' = fitted(y)
                   /\ last' = Outcome("train", "error", 1, 0)
                   /\ UNCHANGED <<analysis, rankedJson, rankedCsv, candidates, labels,
                                  predictions, report, uncertain, edits>>
              ELSE \E p \in ProbPatterns :
                   \E table \in predicted(df, p[1], p[2]) :
                   /\ modelFile' = fitted(y)
                   /\ predictions' = table
                   /\ last' = Outcome("train", "done", 0, 0)
                   /\ UNCHANGED <<analysis, rankedJson, rankedCsv, candidates, labels,
                                  report, uncertain, edits>>

(***************************************************************************)
(* python verify.py                                                        *)
(***************************************************************************)
load_input_ids == ids_of(analysis.graphNodes)
load_out_json_ids == IF rankedJson = Absent THEN <<>> ELSE ids_of(rankedJson.function_rankings)
load_csv_ids == IF rankedCsv = Absent THEN <<>> ELSE ids_of(rankedCsv.rows)

\* The report: the counts and the four difference lists (the code sorts
\* them and prints the first 200 missing and the first 50 extra ids).
Shown(S, limit) == IF Cardinality(S) <= limit THEN S
                   ELSE CHOOSE T \in SUBSET S : Cardinality(T) = limit

verify_passes == /\ Range(load_input_ids) \ Range(load_out_json_ids) = {}
                 /\ Range(load_input_ids) \ Range(load_csv_ids) = {}

Verify ==
    IF analysis = Absent
    THEN /\ last' = Outcome("verify", "error", 1, 0)
         /\ UNCHANGED <<analysis, rankedJson, rankedCsv, candidates, labels,
                        modelFile, predictions, report, uncertain, edits>>
    ELSE LET set_in == Range(load_input_ids)
             set_out_json == Range(load_out_json_ids)
             set_csv == Range(load_csv_ids)
         IN  /\ report' = [input_nodes     |-> Len(load_input_ids),
                           json_rows       |-> Len(load_out_json_ids),
                           csv_rows        |-> Len(load_csv_ids),
                           missing_in_json |-> Shown(set_in \ set_out_json, 200),
                           missing_in_csv  |-> Shown(set_in \ set_csv, 200),
                           extra_in_json   |-> Shown(set_out_json \ set_in, 50),
                           extra_in_csv    |-> Shown(set_csv \ set_in, 50)]
             /\ last' = Outcome("verify", "done", IF verify_passes THEN 0 ELSE 2, 0)
             /\ UNCHANGED <<analysis, rankedJson, rankedCsv, candidates, labels,
                            modelFile, predictions, uncertain, edits>>

(***************************************************************************)
(* The analysis input is superseded by a newer snapshot: a node is added   *)
(* or the last one removed.                                                *)
(***************************************************************************)
MaxNodes == 2
MaxEdits == 1
MaxCoreMarks == 2
MaxRows == 3
MaxCount == 2

SupersedeInput ==
    /\ analysis # Absent
    /\ edits < MaxEdits
    /\ \/ /\ analysis.graphNodes # <<>>
          /\ analysis' = [graphNodes |-> SubSeq(analysis.graphNodes, 1,
                                                Len(analysis.graphNodes) - 1)]
       \/ \E node \in {Catalogue[1], Catalogue[3]} :
             analysis' = [graphNodes |-> Append(analysis.graphNodes, node)]
    /\ edits' = edits + 1
    /\ last' = Outcome("supersede", "done", 0, 0)
    /\ UNCHANGED <<rankedJson, rankedCsv, candidates, labels, modelFile, predictions,
                   report, uncertain>>

(***************************************************************************)
(* The corpora: every list of at most MaxNodes catalogue nodes, and every  *)
(* prefix of the catalogue.                                                *)
(***************************************************************************)
Prefixes == {SubSeq(Catalogue, 1, n) : n \in 0..Len(Catalogue)}
Corpora == UNION {[1..n -> Range(Catalogue)] : n \in 0..MaxNodes} \cup Prefixes

CandidateCounts == {2, 100, 150}

NothingWritten ==
    /\ rankedJson = Absent
    /\ rankedCsv = Absent
    /\ candidates = Absent
    /\ labels = Absent
    /\ modelFile = Absent
    /\ predictions = Absent
    /\ report = Absent
    /\ uncertain = Absent
    /\ edits = 0
    /\ last = Outcome("none", "done", 0, 0)

Init ==
    /\ analysis \in {[graphNodes |-> c] : c \in Corpora} \cup {Absent}
    /\ NothingWritten

Next ==
    \/ Rank
    \/ \E n \in CandidateCounts : PrepareLabels(n)
    \/ AutoLabel
    \/ \E k \in 0..MaxCoreMarks : ManualLabel(k)
    \/ SaveRenamed
    \/ Train
    \/ Verify
    \/ SupersedeInput
    \/ \E n_top \in 0..MaxCount, n_bottom \in 0..MaxCount, n_mid \in 0..MaxCount :
          Sample(n_top, n_bottom, n_mid)

Spec == Init /\ [][Next]_vars

\* The scoring stage alone, over every corpus.
NextRank == Rank

SpecRank == Init /\ [][NextRank]_vars

\* The scoring stage alone, over corpora that include nodes with empty or
\* unparseable code and nodes with further fields.
PoolCorpora ==
    UNION {[1..n -> Range(Pool)] : n \in 0..MaxNodes} \cup {Pool}

InitExtract ==
    /\ analysis \in {[graphNodes |-> c] : c \in PoolCorpora}
    /\ NothingWritten

NextExtract == Rank

SpecExtract == InitExtract /\ [][NextExtract]_vars

\* The pipeline over one fixed snapshot of the input.
InitPipeline ==
    /\ analysis \in {[graphNodes |-> c] : c \in Prefixes} \cup {Absent}
    /\ NothingWritten

NextPipeline ==
    \/ Rank
    \/ \E n \in CandidateCounts : PrepareLabels(n)
    \/ AutoLabel
    \/ \E k \in 0..MaxCoreMarks : ManualLabel(k)
    \/ SaveRenamed
    \/ Train

SpecPipeline == InitPipeline /\ [][NextPipeline]_vars

\* Scoring and its audit, over every corpus.
NextAudit ==
    \/ Rank
    \/ Verify
    \/ SupersedeInput

SpecAudit == Init /\ [][NextAudit]_vars

\* The sampler on its own: any ranked table of at most MaxRows rows with
\* unique ids, any counts up to MaxCount.
ImportanceLevels == {2000, 5000, 9000}

SamplerRow(i, importance) ==
    [c \in csv_columns |->
        IF c = "id" THEN SubSeq("abcdefghij", i, i)
        ELSE IF c = "label" THEN "f"
        ELSE IF c = "importance" THEN importance
        ELSE IF c = "triviality" THEN Unit - importance
        ELSE 0]

SamplerTables ==
    UNION {{[header |-> csv_columns,
             rows   |-> [i \in 1..n |-> SamplerRow(i, imp[i])]] :
               imp \in [1..n -> ImportanceLevels]} : n \in 1..MaxRows}

InitSampler ==
    /\ rankedCsv \in SamplerTables
    /\ analysis = Absent
    /\ rankedJson = Absent
    /\ candidates = Absent
    /\ labels = Absent
    /\ modelFile = Absent
    /\ predictions = Absent
    /\ report = Absent
    /\ uncertain = Absent
    /\ edits = 0
    /\ last = Outcome("none", "done", 0, 0)

NextSampler == \E n_top \in 0..MaxCount, n_bottom \in 0..MaxCount, n_mid \in 0..MaxCount :
                  Sample(n_top, n_bottom, n_mid)

SpecSampler == InitSampler /\ [][NextSampler]_vars

\* The train stage alone, over ranked tables with and without an importance
\* column and labels files marking the first k rows "core", the others
\* "utility".  A table has one row more than the folds of the cross
\* validation, so that one category can fill every fold; its first MaxRows
\* rows vary, the others are fixed.
n_splits == 5

TrainLevels == {0, 2500, 10000}

TrainRow(i, importance, one_liner) ==
    [SamplerRow(i, importance) EXCEPT !.one_liner = one_liner]

TrainTables ==
    LET N == n_splits + 1
        varied == 1..Min(MaxRows, N)
        full(imp, ol) ==
            [i \in 1..N |-> IF i \in varied THEN TrainRow(i, imp[i], ol[i])
                            ELSE TrainRow(i, 7000 + 100 * i, 0)]
    IN  {[header |-> csv_columns, rows |-> full(imp, ol)] :
            imp \in [varied -> TrainLevels], ol \in [varied -> {0, 1}]}
        \cup
        {[header |-> csv_columns \ {"importance"},
          rows   |-> [i \in 1..N |->
                        Project(full([j \in varied |-> 0], ol)[i],
                                csv_columns \ {"importance"})]] :
            ol \in [varied -> {0, 1}]}

LabelsFor(table, k) ==
    [header |-> {"id", "human_label"},
     rows   |-> [i \in 1..Len(table.rows) |->
                   [id |-> table.rows[i].id,
                    human_label |-> IF i <= k THEN "core" ELSE "utility"]]]

InitTrain ==
    /\ rankedCsv \in TrainTables
    /\ labels \in {LabelsFor(rankedCsv, k) : k \in 0..MaxCoreMarks}
    /\ analysis = Absent
    /\ rankedJson = Absent
    /\ candidates = Absent
    /\ modelFile = Absent
    /\ predictions = Absent
    /\ report = Absent
    /\ uncertain = Absent
    /\ edits = 0
    /\ last = Outcome("none", "done", 0, 0)

\* One run of train on the table.
TrainOnce ==
    /\ modelFile = Absent
    /\ predictions = Absent
    /\ Train

NextTrain == TrainOnce

SpecTrain == InitTrain /\ [][NextTrain]_vars

(***************************************************************************)
(* The claims.                                                             *)
(***************************************************************************)
RankedRows == IF rankedJson = Absent THEN <<>> ELSE rankedJson.function_rankings
CsvRows == IF rankedCsv = Absent THEN <<>> ELSE rankedCsv.rows

\* C1: every row the scoring stage emits, in the ranked document and in the
\* ranked table, has triviality + importance = 1 with both in [0, 1].
C1_Complementary ==
    \A rs \in {RankedRows, CsvRows} : \A i \in 1..Len(rs) :
        /\ rs[i].triviality + rs[i].importance = Unit
        /\ 0 <= rs[i].triviality /\ rs[i].triviality <= Unit
        /\ 0 <= rs[i].importance /\ rs[i].importance <= Unit

\* A ranked document with a row scored at the upper clamp and another row
\* strictly inside (0, 1).
C1_Witness ==
    /\ \E i \in 1..Len(RankedRows) :
          RankedRows[i].triviality = Unit /\ weighted_sum(RankedRows[i]) + Hundredths(10) > One
    /\ \E i \in 1..Len(RankedRows) :
          RankedRows[i].triviality > 0 /\ RankedRows[i].triviality < Unit

\* C5: in a non-empty ranked document every normalised metric lies in
\* [0, 1]; a column whose max differs from its min has normalised minimum
\* exactly 0 and maximum exactly 1, a column of zero variance is 0 in
\* every row.
ColumnRaw(c) == {RankedRows[i][c] : i \in 1..Len(RankedRows)}
ColumnNorm(c) == {RankedRows[i][norm_name[c]] : i \in 1..Len(RankedRows)}

C5_MinMax ==
    RankedRows # <<>> =>
        \A c \in numeric_cols :
            /\ \A v \in ColumnNorm(c) : 0 <= v /\ v <= NormScale
            /\ IF SetMax(ColumnRaw(c)) # SetMin(ColumnRaw(c))
               THEN SetMin(ColumnNorm(c)) = 0 /\ SetMax(ColumnNorm(c)) = NormScale
               ELSE ColumnNorm(c) = {0}

\* A ranked document with a column that varies above a minimum greater than
\* 0, and a column that is constant at a value other than 0.
C5_Witness ==
    /\ RankedRows # <<>>
    /\ SetMin(ColumnRaw("loc")) > 0
    /\ SetMax(ColumnRaw("loc")) > SetMin(ColumnRaw("loc"))
    /\ Cardinality(ColumnRaw("complexity")) = 1
    /\ 0 \notin ColumnRaw("complexity")

\* C6: every emitted row's triviality equals the reference computation:
\* weights loc 0.35, complexity 0.20, keyword_matches 0.20, num_calls,
\* num_params, doc_len, num_imports 0.05 each (keyword_matches counted as
\* weight * norm, the others as weight * (1 - norm)), then +0.10 if
\* one_liner and num_calls <= 1 and complexity <= 2, then -0.15 if critical
\* name or path, then -0.08 if has_type_annotations or doc_len > 80, clamped
\* to [0, 1] after each adjustment; a row with loc = 1, num_calls = 0,
\* complexity = 1 and one_liner set receives the +0.10.
Clamp01(x) == Max(0, Min(ScoreScale, x))

RefWeighted(r) ==
      35 * (NormScale - r.loc_norm)
    + 20 * (NormScale - r.complexity_norm)
    + 20 * r.keyword_matches_norm
    + 5 * (NormScale - r.num_calls_norm)
    + 5 * (NormScale - r.num_params_norm)
    + 5 * (NormScale - r.doc_len_norm)
    + 5 * (NormScale - r.num_imports_norm)

\* The texts of the corpus naming a critical name, or a critical path.
CriticalNameTexts ==
    {s \in Texts : \E k \in {"__init__", "decorator", "on_event", "setup",
                              "configure", "mount"} : Contains(lower(s), k)}
CriticalPathTexts ==
    {s \in Texts : \E f \in {"applications", "routing", "endpoints", "schemas",
                              "models"} : Contains(lower(s), f)}
EndpointTexts == {s \in Texts : Contains(lower(s), "endpoints")}

RefCriticalName(r) == r.label \in CriticalNameTexts
RefCriticalPath(r) == r.id \in CriticalPathTexts

\* The reference with each adjustment switched on or off.
RefScore(r, bonus, critical, documented) ==
    LET s1 == Clamp01(RefWeighted(r) + IF bonus THEN 10 * NormScale ELSE 0)
        s2 == Clamp01(s1 - IF critical THEN 15 * NormScale ELSE 0)
        s3 == Clamp01(s2 - IF documented THEN 8 * NormScale ELSE 0)
    IN  round4(s3, ScoreScale)

RefBonus(r) == r.one_liner # 0 /\ r.num_calls <= 1 /\ r.complexity <= 2
RefDocumented(r) == r.has_type_annotations # 0 \/ r.doc_len > 80

C6_Reference ==
    \A i \in 1..Len(RankedRows) :
        LET r == RankedRows[i] IN
        /\ r.triviality = RefScore(r, RefBonus(r),
                                   RefCriticalName(r) \/ RefCriticalPath(r),
                                   RefDocumented(r))
        /\ (r.loc = 1 /\ r.num_calls = 0 /\ r.complexity = 1 /\ r.one_liner # 0)
           => r.triviality = RefScore(r, TRUE,
                                      RefCriticalName(r) \/ RefCriticalPath(r),
                                      RefDocumented(r))

\* A ranked document with a row on which all three adjustments act and
\* change the score, and a one-line row without calls whose score the
\* bonus changes.
C6_Witness ==
    /\ \E i \in 1..Len(RankedRows) :
          LET r == RankedRows[i] IN
          /\ RefBonus(r) /\ RefCriticalPath(r) /\ RefDocumented(r)
          /\ r.triviality # RefScore(r, FALSE, TRUE, TRUE)
          /\ r.triviality # RefScore(r, TRUE, FALSE, TRUE)
          /\ r.triviality # RefScore(r, TRUE, TRUE, FALSE)
    /\ \E i \in 1..Len(RankedRows) :
          LET r == RankedRows[i] IN
          /\ r.loc = 1 /\ r.num_calls = 0 /\ r.complexity = 1 /\ r.one_liner # 0
          /\ r.triviality # RefScore(r, FALSE, RefCriticalName(r) \/ RefCriticalPath(r),
                                     RefDocumented(r))
    /\ \E i \in 1..Len(RankedRows) : RankedRows[i].keyword_matches_norm > 0

\* Two rows of one ranked document that agree on every normalised metric and
\* on the flags the other adjustments read.
OtherwiseIdentical(r1, r2) ==
    /\ \A c \in numeric_cols : r1[c] = r2[c] /\ r1[norm_name[c]] = r2[norm_name[c]]
    /\ r1.one_liner = r2.one_liner
    /\ r1.has_type_annotations = r2.has_type_annotations

EndpointPairs ==
    {<<i, j>> \in (1..Len(RankedRows)) \X (1..Len(RankedRows)) :
        /\ RankedRows[i].id \in EndpointTexts
        /\ ~ RefCriticalName(RankedRows[j]) /\ ~ RefCriticalPath(RankedRows[j])
        /\ OtherwiseIdentical(RankedRows[i], RankedRows[j])}

\* C7 as stated: the -0.15 acts exactly on the rows with a critical name or
\* path, and a row whose id contains "endpoints" has a triviality 0.15 lower
\* than an otherwise identical row with no critical name or path.
C7_Original ==
    /\ \A i \in 1..Len(RankedRows) :
          LET r == RankedRows[i] IN
          r.triviality = RefScore(r, RefBonus(r),
                                  RefCriticalName(r) \/ RefCriticalPath(r),
                                  RefDocumented(r))
    /\ \A p \in EndpointPairs :
          RankedRows[p[2]].triviality - RankedRows[p[1]].triviality = (15 * Unit) \div 100

\* C7, amended: the -0.15 acts exactly on the rows with a critical name or
\* path (whatever loc, one_liner or the bonus); a row whose id contains
\* "endpoints" has a triviality exactly 0.15 lower than an otherwise
\* identical row with no critical name or path whenever its own triviality
\* is above 0, and otherwise lower by at most 0.15, never higher.
C7_CriticalReduction ==
    /\ \A i \in 1..Len(RankedRows) :
          LET r == RankedRows[i]
              critical == RefCriticalName(r) \/ RefCriticalPath(r)
          IN  /\ critical => r.triviality = RefScore(r, RefBonus(r), TRUE, RefDocumented(r))
              /\ ~ critical => r.triviality = RefScore(r, RefBonus(r), FALSE, RefDocumented(r))
    /\ \A p \in EndpointPairs :
          LET lower_by == RankedRows[p[2]].triviality - RankedRows[p[1]].triviality IN
          /\ 0 <= lower_by /\ lower_by <= (15 * Unit) \div 100
          /\ RankedRows[p[1]].triviality > 0 => lower_by = (15 * Unit) \div 100

\* A ranked document with an endpoints row exactly 0.15 below its
\* non-critical twin, the bonus having fired on both.
C7_Witness ==
    \E p \in EndpointPairs :
        /\ RefBonus(RankedRows[p[1]])
        /\ RankedRows[p[1]].triviality > 0
        /\ RankedRows[p[2]].triviality - RankedRows[p[1]].triviality = (15 * Unit) \div 100

\* C8: the rows of a fresh ranked document are in non-increasing order of
\* importance, and rows of equal importance are in the order of the input
\* node list.
IdsWithImportance(ids, v) ==
    LET imp_of(id) ==
            RankedRows[CHOOSE k \in 1..Len(RankedRows) : RankedRows[k].id = id].importance
        has_v(id) == imp_of(id) = v
    IN  SelectSeq(ids, has_v)

C8_StableOrder ==
    (last.stage = "rank" /\ last.outcome = "done") =>
        /\ \A i, j \in 1..Len(RankedRows) :
              i < j => RankedRows[i].importance >= RankedRows[j].importance
        /\ \A v \in {RankedRows[k].importance : k \in 1..Len(RankedRows)} :
              IdsWithImportance(ids_of(RankedRows), v)
                  = IdsWithImportance(ids_of(analysis.graphNodes), v)

\* A fresh ranked document with two rows of different ids and equal
\* importance, and a row that moved up from a later input position.
C8_Witness ==
    /\ last.stage = "rank" /\ last.outcome = "done"
    /\ \E i, j \in 1..Len(RankedRows) :
          /\ RankedRows[i].id # RankedRows[j].id
          /\ RankedRows[i].importance = RankedRows[j].importance
    /\ \E i \in 1..Len(RankedRows) :
          /\ RankedRows[i].id # analysis.graphNodes[i].id
          /\ RankedRows[i].importance > RankedRows[Len(RankedRows)].importance

\* C4 as stated: verify exits with status 2 whenever the id set of the input
\* differs from that of the ranked JSON or of the ranked CSV (ids missing
\* from an output or extra in it), and with 0 only when all three are equal.
C4_VerifyExit ==
    (last.stage = "verify" /\ last.outcome = "done") =>
        LET set_in == Range(load_input_ids)
            differ == \/ set_in # Range(load_out_json_ids)
                      \/ set_in # Range(load_csv_ids)
        IN  /\ differ => last.exit = 2
            /\ last.exit = 0 => ~ differ

BagOfSeq(ids) == [x \in Range(ids) |-> Cardinality({i \in 1..Len(ids) : ids[i] = x})]

\* C2 as stated: every stage emits exactly the ids it received: the ranked
\* JSON and the ranked CSV hold the same number of rows and the same
\* multiset of ids as the input node list, and the predictions table the
\* same as the ranked CSV the train stage read.
C2_IdsPreserved ==
    /\ (last.stage = "rank" /\ last.outcome = "done") =>
          /\ BagOfSeq(ids_of(RankedRows)) = BagOfSeq(ids_of(analysis.graphNodes))
          /\ BagOfSeq(ids_of(CsvRows)) = BagOfSeq(ids_of(analysis.graphNodes))
    /\ (last.stage = "train" /\ last.outcome = "done") =>
          /\ Len(predictions.rows) = Len(CsvRows)
          /\ BagOfSeq(ids_of(predictions.rows)) = BagOfSeq(ids_of(CsvRows))

\* C3: a stage started while its upstream artifact is missing (rank without
\* the analysis input, prepare-labels or train without the ranked CSV,
\* train without the labels file) stops on an error and leaves every
\* artifact as it was; the model artifact and the predictions table change
\* only in a train step that found both the ranked CSV and a labels file.
StartedWithoutInput ==
    \/ last'.stage = "rank" /\ analysis = Absent
    \/ last'.stage \in {"prepare-labels", "train"} /\ rankedCsv = Absent
    \/ last'.stage = "train" /\ labels = Absent

C3_MissingInputFatal ==
    [][ /\ StartedWithoutInput =>
              /\ last'.outcome = "error"
              /\ UNCHANGED <<analysis, rankedJson, rankedCsv, candidates, labels,
                             modelFile, predictions, report, uncertain>>
        /\ (modelFile' # modelFile \/ predictions' # predictions) =>
              /\ last'.stage = "train"
              /\ rankedCsv # Absent
              /\ labels # Absent ]_vars

\* The train stage stopped on an error for want of the labels file, the
\* ranked CSV being there, and nothing of its outputs exists.
C3_Witness ==
    /\ last.stage = "train" /\ last.outcome = "error"
    /\ rankedCsv # Absent /\ labels = Absent
    /\ modelFile = Absent /\ predictions = Absent

\* C10 as stated: prepare-labels invoked with candidate count n writes a
\* label-candidates table of at most n rows.
C10_AtMostN ==
    (last.stage = "prepare-labels" /\ last.outcome = "done") =>
        Len(candidates.rows) <= last.n

\* C9: for a ranked table with unique ids and counts n_top, n_bottom,
\* n_mid >= 0, the sampler's output contains n_top highest-importance rows
\* and n_bottom lowest-importance rows (all rows when there are fewer),
\* holds no id twice, has at most n_top + n_mid + n_bottom rows, and keeps
\* a row selected by several strata once, at the position of the first of
\* top, mid, bottom that selected it.
SampleIn == ids_of(rankedCsv.rows)
SampleOut == ids_of(candidates.rows)
ImportanceOfId(id) ==
    rankedCsv.rows[CHOOSE i \in 1..Len(rankedCsv.rows) : rankedCsv.rows[i].id = id].importance

\* Some n of the output's rows are at least as important as every other row
\* of the table (sign = 1), or at most as important (sign = -1).
HoldsExtreme(n, sign) ==
    \E T \in SUBSET Range(SampleOut) :
        /\ Cardinality(T) = Min(n, Len(SampleIn))
        /\ \A a \in T : \A b \in Range(SampleIn) \ T :
              sign * ImportanceOfId(a) >= sign * ImportanceOfId(b)

NotIn(ids, seen) == SelectSeq(ids, LAMBDA x : x \notin seen)

C9_Sampler ==
    (last.stage = "sample" /\ last.outcome = "done") =>
        LET top == last.strata.top
            mid == last.strata.mid
            bottom == last.strata.bottom
        IN  /\ HoldsExtreme(last.counts.n_top, 1)
            /\ HoldsExtreme(last.counts.n_bottom, -1)
            /\ Cardinality(Range(SampleOut)) = Len(SampleOut)
            /\ Len(SampleOut) <= last.counts.n_top + last.counts.n_mid + last.counts.n_bottom
            /\ Range(SampleOut) = Range(top) \cup Range(mid) \cup Range(bottom)
            /\ SampleOut = top \o NotIn(mid, Range(top))
                               \o NotIn(bottom, Range(top) \cup Range(mid))
            /\ \A i \in 1..Len(SampleOut) :
                  candidates.rows[i].dist_med.nan <=> SampleOut[i] \notin (Range(mid) \ Range(top))

\* A sample where one row was selected by top and mid, another by mid and
\* bottom, all counts are positive and some row of the table is left out.
C9_Witness ==
    /\ last.stage = "sample" /\ last.outcome = "done"
    /\ last.counts.n_top >= 1 /\ last.counts.n_mid >= 1 /\ last.counts.n_bottom >= 1
    /\ Range(last.strata.top) \cap Range(last.strata.mid) # {}
    /\ (Range(last.strata.mid) \cap Range(last.strata.bottom)) \ Range(last.strata.top) # {}
    /\ Range(SampleIn) \ Range(SampleOut) # {}

\* The labelled rows a train run merges from the ranked CSV and the labels
\* file on disk (both are left as they were by train).
TrainInputsReadable ==
    /\ rankedCsv # Absent /\ rankedCsv.header # {}
    /\ labels # Absent /\ "human_label" \in labels.header

MergedLabels ==
    merge_y(read_csv(rankedCsv).rows, valid_labels(read_csv(labels).rows))

\* C11 as stated: when the labels file yields fewer than 20 valid labelled
\* rows (very few rows, or rows of one category only, included), the train
\* stage only warns and completes: it persists the model artifact and
\* writes the predictions table rather than aborting.
C11_FewLabelsWarnOnly ==
    (last.stage = "train" /\ TrainInputsReadable /\ Len(MergedLabels) < 20) =>
        /\ last.outcome = "done"
        /\ modelFile # Absent
        /\ predictions # Absent

\* C12: in every row of a predictions table, combined_score is
\* 0.4 * importance + 0.6 * model_prob_core when the table has an importance
\* column, so it lies in [0, 1] and strictly between the two unless they
\* are equal, when it equals both; without an importance column it equals
\* model_prob_core; and the rows are in non-increasing order of
\* combined_score.  (combined_score is kept in units of 1/(10 * Unit), the
\* other two in units of 1/Unit.)
PredictionRows == IF predictions = Absent THEN <<>> ELSE predictions.rows

StructuralMetrics == {"complexity", "num_funcs", "num_calls", "num_returns",
                      "num_assigns", "num_imports", "num_params", "doc_len"}

NoTreeFor(code) == CodeFacts[code].length = 0 \/ CodeFacts[code].parse = "fail"

C13_ExtractionTotal ==
    (last.stage = "rank" /\ analysis # Absent) =>
        /\ last.outcome = "done"
        /\ Len(RankedRows) = Len(analysis.graphNodes)
        /\ \A i \in 1..Len(RankedRows) :
              LET r == RankedRows[i] IN
              /\ r.loc = CodeFacts[r.code].nonblank
              /\ 0 <= r.triviality /\ r.triviality <= Unit
              /\ IF NoTreeFor(r.code)
                 THEN \A c \in StructuralMetrics : r[c] = 0
                 ELSE r.complexity >= 1

\* A ranked document with a row of empty code, a row of unparseable code
\* of three non-blank lines, and a row whose code parsed only when wrapped.
C13_Witness ==
    /\ last.stage = "rank" /\ last.outcome = "done"
    /\ \E i \in 1..Len(RankedRows) : CodeFacts[RankedRows[i].code].length = 0
    /\ \E i \in 1..Len(RankedRows) :
          /\ CodeFacts[RankedRows[i].code].parse = "fail"
          /\ RankedRows[i].loc = 3
    /\ \E i \in 1..Len(RankedRows) :
          /\ CodeFacts[RankedRows[i].code].parse = "wrapped"
          /\ RankedRows[i].num_funcs = 1

\* C14 as stated: every field of an input node other than id, label and
\* code, whatever its key, is in that node's row of the ranked document
\* with the value it had in the input.
PassThrough(node) == DOMAIN node \ {"id", "label", "code"}

C14_PassThroughKept ==
    (last.stage = "rank" /\ last.outcome = "done") =>
        \A k \in 1..Len(analysis.graphNodes) :
            LET node == analysis.graphNodes[k] IN
            \E i \in 1..Len(RankedRows) :
                /\ RankedRows[i].id = node.id
                /\ \A f \in PassThrough(node) :
                      f \in DOMAIN RankedRows[i] /\ RankedRows[i][f] = node[f]

\* C15 as stated: the model artifact is written or replaced only in a run
\* of train that also writes the predictions table, runs that fail part
\* way included.
C15_WrittenTogether ==
    [][ modelFile' # modelFile =>
            /\ last'.stage = "train"
            /\ last'.outcome = "done"
            /\ predictions' # Absent
            /\ Len(predictions'.rows) = Len(rankedCsv.rows) ]_vars

====
